---- MODULE Spec2Model ----
(***************************************************************************)
(* Slack and criticality evaluation of vpr/src/timing/slack_evaluation.cpp *)
(* (classes SetupSlackCrit and HoldSlackCrit), as a state machine.         *)
(*                                                                         *)
(* The analyzer, the timing graph, the netlist and the node<->pin lookup   *)
(* are the environment: their state is part of the model's state and the   *)
(* Analyze actions change it between update calls.                         *)
(*                                                                         *)
(* A float is a pair <<n, d>>: d > 0 is the finite value n/d in lowest     *)
(* terms, <<0,0>> is NaN, <<1,0>> is +infinity and <<-1,0>> is -infinity.  *)
(* Rounding of finite values is not modelled (values are exact rationals). *)
(***************************************************************************)
EXTENDS Integers, Sequences, FiniteSets, TLC

\* ---------------------------------------------------------------- bounds
NumNodes == 3          \* nodes of the timing graph
NumPins == 3           \* pins of the largest netlist
NumDomainPairs == 2    \* (launch, capture) clock domain pairs
MaxAnalyses == 2       \* timing analyses (analyzer updates) in one run

Nodes == 1..NumNodes
DomainPairs == 1..NumDomainPairs

\* Time values the analyzer attaches to required-time and slack tags.
ReqTimes == {2, 3}
SlackTimes == {-1, 1}
HoldTimes == {-2, 1, 3}

\* AtomPinId::INVALID() / tatum::NodeId::INVALID(): what a failed lookup returns.
INVALID == 0

\* ---------------------------------------------------------------- floats
NaN == <<0, 0>>
PosInf == <<1, 0>>
NegInf == <<-1, 0>>

Abs(x) == IF x < 0 THEN -x ELSE x

RECURSIVE GCD(_, _)
GCD(a, b) == IF b = 0 THEN a ELSE GCD(b, a % b)

\* n/d (d > 0) in lowest terms.
Rat(n, d) ==
    LET g == GCD(Abs(n), d)
    IN  IF n < 0 THEN <<-(Abs(n) \div g), d \div g>> ELSE <<n \div g, d \div g>>

Fin(n) == <<n, 1>>

IsNaN(x) == x = NaN
IsFinite(x) == x[2] > 0

\* a < b on floats: false when either side is NaN.
FLt(a, b) ==
    /\ ~IsNaN(a)
    /\ ~IsNaN(b)
    /\ IF a[2] = 0 /\ b[2] = 0 THEN a[1] < b[1] ELSE a[1] * b[2] < b[1] * a[2]

FLe(a, b) == ~IsNaN(a) /\ ~IsNaN(b) /\ ~FLt(b, a)

\* std::min(a, b) is (b < a) ? b : a and std::max(a, b) is (a < b) ? b : a.
FMin(a, b) == IF FLt(b, a) THEN b ELSE a
FMax(a, b) == IF FLt(a, b) THEN b ELSE a

FNeg(a) == <<-a[1], a[2]>>
FAbs(a) == <<Abs(a[1]), a[2]>>

FAdd(a, b) ==
    IF IsNaN(a) \/ IsNaN(b) THEN NaN
    ELSE IF IsFinite(a) /\ IsFinite(b) THEN Rat(a[1] * b[2] + b[1] * a[2], a[2] * b[2])
    ELSE IF IsFinite(a) THEN b
    ELSE IF IsFinite(b) THEN a
    ELSE IF a = b THEN a ELSE NaN

FSub(a, b) == FAdd(a, FNeg(b))

FMul(a, b) ==
    IF IsNaN(a) \/ IsNaN(b) THEN NaN
    ELSE IF IsFinite(a) /\ IsFinite(b) THEN Rat(a[1] * b[1], a[2] * b[2])
    ELSE IF a[1] = 0 \/ b[1] = 0 THEN NaN
    ELSE IF (a[1] < 0) = (b[1] < 0) THEN PosInf ELSE NegInf

\* 1. / a
FRecip(a) ==
    IF IsNaN(a) THEN NaN
    ELSE IF ~IsFinite(a) THEN Fin(0)
    ELSE IF a[1] = 0 THEN PosInf
    ELSE IF a[1] < 0 THEN Rat(-a[2], -a[1]) ELSE Rat(a[2], a[1])

\* ------------------------------------------------------------------ state
VARIABLES
    evaluator,          \* which class the instance is: "SetupSlackCrit" or "HoldSlackCrit"
    num_pins,           \* netlist_.pins().size()
    tnode_atom_pin,     \* netlist_lookup_: node -> pin, INVALID where a node has no pin
    setup_slacks,       \* analyzer.setup_slacks(node): set of <<domain pair, time>>
    setup_required,     \* analyzer.setup_tags(node, DATA_REQUIRED): set of <<domain pair, time>>
    hold_slacks,        \* analyzer.hold_slacks(node): set of <<domain pair, time>>
    modified_nodes,     \* analyzer.modified_nodes(): sequence of nodes
    pin_slacks_,        \* pin -> float
    pin_criticalities_, \* pin -> float
    pins_with_modified_slacks_,         \* sequence of pins
    pins_with_modified_criticalities_,  \* sequence of pins
    prev_max_req_,      \* domain pair -> time (a map: its domain is its key set)
    prev_worst_slack_,  \* domain pair -> time
    failed,             \* the process was stopped by a failed assertion or a crash
    stray,              \* a write through an invalid pin id landed outside the pin arrays
    last,               \* the operation that ran last
    path,               \* branch the last update_criticalities took
    analyses,           \* number of timing analyses so far
    task_group,         \* tbb::task_group g of update_slacks_and_criticalities (VPR_USE_TBB)
    sequential          \* what the non-TBB branch gives for the call the tasks are running

analyzer_vars == <<setup_slacks, setup_required, hold_slacks, modified_nodes>>
object_vars == <<pin_slacks_, pin_criticalities_, pins_with_modified_slacks_,
                 pins_with_modified_criticalities_, prev_max_req_, prev_worst_slack_>>
tbb_vars == <<task_group, sequential>>
vars == <<evaluator, num_pins, tnode_atom_pin, analyzer_vars, object_vars,
          failed, stray, last, path, analyses, tbb_vars>>

\* ------------------------------------------------------- netlist and graph
\* timing_graph.nodes(), in id order.
graph_nodes == [i \in 1..NumNodes |-> i]

\* netlist_.pins(), in id order.
Pins == 1..num_pins
netlist_pins == [i \in 1..num_pins |-> i]

\* timing_graph.logical_outputs(), in id order: node 1 is an internal node.
logical_outputs == [i \in 1..(NumNodes - 1) |-> i + 1]

\* The lookups the instance may be constructed with: every node has its own pin, or
\* node 1 is a node without a pin; the netlist then has either a last pin without a
\* node, or one pin less, so that every pin has a node.
LookupTotal == [n \in Nodes |-> IF n <= NumPins THEN n ELSE INVALID]
LookupPartial == [n \in Nodes |-> IF n = 1 \/ n - 1 > NumPins THEN INVALID ELSE n - 1]
Lookups == {LookupTotal, LookupPartial}
NetlistSizes == {NumPins - 1, NumPins}

\* netlist_lookup_.atom_pin_tnode(pin)
atom_pin_tnode(pin) ==
    IF \E n \in Nodes : tnode_atom_pin[n] = pin
    THEN CHOOSE n \in Nodes : tnode_atom_pin[n] = pin
    ELSE INVALID

\* What an access through an invalid id can do: stop the process (VTR_ASSERT_SAFE in
\* a build that keeps it, or a crash), or write outside the array and go on.
Outcomes == {"abort", "stray"}

\* ------------------------------------------------------------ tag helpers
TagTimes(tags) == {t[2] : t \in tags}
TagDomains(tags) == {t[1] : t \in tags}

SetMin(S) == CHOOSE x \in S : \A y \in S : x <= y
SetMax(S) == CHOOSE x \in S : \A y \in S : y <= x

\* Faulty variant: the maximum tag is taken instead of the minimum.
find_maximum_tag(tags) == IF tags = {} THEN PosInf ELSE Fin(SetMax(TagTimes(tags)))

\* find_minimum_tag(tags)->time().value(), or +infinity when tags is empty
find_minimum_tag(tags) == IF tags = {} THEN PosInf ELSE Fin(SetMin(TagTimes(tags)))

\* m[k] = v on a std::map
MapPut(m, k, v) == [x \in (DOMAIN m) \cup {k} |-> IF x = k THEN v ELSE m[x]]
EmptyMap == [x \in {} |-> 0]

\* --------------------------------------------------------------- nodes_to_pins
nodes_to_pins(nodes, pins) ==
    pins \o [i \in 1..Len(nodes) |-> tnode_atom_pin[nodes[i]]]

\* ------------------------------------------------- SetupSlackCrit: slacks
\* Faulty variant: the slack array is indexed by the node id instead of the pin id.
Setup_update_pin_slack_by_node(st, node, ub) ==
    LET pin == tnode_atom_pin[node]
    IN  IF pin = INVALID
        THEN IF ub = "abort" THEN [st EXCEPT !.aborted = TRUE]
                             ELSE [st EXCEPT !.stray = TRUE]
        ELSE [st EXCEPT !.arr[node] = find_minimum_tag(setup_slacks[node])]

\* One call of update_pin_slack on the loop state st = [arr, aborted, stray].
Setup_update_pin_slack(st, node, ub) ==
    LET pin == tnode_atom_pin[node]
    IN  IF pin = INVALID
        THEN IF ub = "abort" THEN [st EXCEPT !.aborted = TRUE]
                             ELSE [st EXCEPT !.stray = TRUE]
        ELSE [st EXCEPT !.arr[pin] = find_minimum_tag(setup_slacks[node])]

RECURSIVE Setup_slack_loop(_, _, _)
Setup_slack_loop(st, nodes, ub) ==
    IF nodes = <<>> \/ st.aborted THEN st
    ELSE Setup_slack_loop(Setup_update_pin_slack(st, Head(nodes), ub), Tail(nodes), ub)

\* Faulty variant: the modified-slack list is not cleared before it is refilled.
Setup_record_slack_pins_append(nodes) == nodes_to_pins(nodes, pins_with_modified_slacks_)

\* The modified-slack list after the loop: cleared, then refilled.
Setup_record_slack_pins(nodes) == nodes_to_pins(nodes, <<>>)

\* update_slacks: the loop over the modified nodes, then the modified-slack list.
Setup_update_slacks(ub) ==
    LET nodes == modified_nodes
        st == Setup_slack_loop([arr |-> pin_slacks_, aborted |-> FALSE, stray |-> FALSE],
                               nodes, ub)
    IN  [arr |-> st.arr, aborted |-> st.aborted, stray |-> st.stray,
         pins |-> IF st.aborted THEN pins_with_modified_slacks_
                  ELSE Setup_record_slack_pins(nodes)]

\* ------------------------------------------- SetupSlackCrit: criticalities
RECURSIVE max_req_tags(_, _)
max_req_tags(m, tags) ==
    IF tags = {} THEN m
    ELSE LET tag == CHOOSE t \in tags : TRUE
             domain_pair == tag[1]
             req == tag[2]
         IN  max_req_tags(IF domain_pair \notin DOMAIN m \/ m[domain_pair] < req
                          THEN MapPut(m, domain_pair, req) ELSE m,
                          tags \ {tag})

RECURSIVE worst_slack_tags(_, _)
worst_slack_tags(m, tags) ==
    IF tags = {} THEN m
    ELSE LET tag == CHOOSE t \in tags : TRUE
             domain_pair == tag[1]
             slack == tag[2]
         IN  worst_slack_tags(IF domain_pair \notin DOMAIN m \/ slack < m[domain_pair]
                              THEN MapPut(m, domain_pair, slack) ELSE m,
                              tags \ {tag})

\* The aggregation loop over timing_graph.logical_outputs(): agg = [max_req, worst_slack].
RECURSIVE aggregate(_, _)
aggregate(agg, nodes) ==
    IF nodes = <<>> THEN agg
    ELSE aggregate([max_req |-> max_req_tags(agg.max_req, setup_required[Head(nodes)]),
                    worst_slack |-> worst_slack_tags(agg.worst_slack, setup_slacks[Head(nodes)])],
                   Tail(nodes))

\* Faulty variant: the aggregation runs over every node of the graph.
Aggregates_all_nodes == aggregate([max_req |-> EmptyMap, worst_slack |-> EmptyMap], graph_nodes)

Aggregates == aggregate([max_req |-> EmptyMap, worst_slack |-> EmptyMap], logical_outputs)

\* calc_relaxed_criticality (timing_util): per tag, the slack and the domain pair's
\* maximum required time are shifted by the domain pair's worst slack when that is
\* negative, the tag's criticality is 1 - slack / max_req clipped to [0, 1], and the
\* result is the maximum over the tags (0 for no tags).
RelaxedTagCriticality(max_req, worst_slack, tag) ==
    LET shift == IF worst_slack[tag[1]] < 0 THEN -worst_slack[tag[1]] ELSE 0
        slack == tag[2] + shift
        req == max_req[tag[1]] + shift
        crit == IF req > 0 THEN Rat(req - slack, req) ELSE Fin(0)
    IN  FMin(Fin(1), FMax(Fin(0), crit))

RECURSIVE calc_relaxed_criticality(_, _, _)
calc_relaxed_criticality(max_req, worst_slack, tags) ==
    IF tags = {} THEN Fin(0)
    ELSE LET tag == CHOOSE t \in tags : TRUE
         IN  FMax(calc_relaxed_criticality(max_req, worst_slack, tags \ {tag}),
                  RelaxedTagCriticality(max_req, worst_slack, tag))

\* Faulty variant: the node's slack is returned in place of its criticality.
Setup_calc_pin_criticality_slack(node, max_req, worst_slack) ==
    find_minimum_tag(setup_slacks[node])

\* Faulty variant: a domain pair that has stored previous aggregates is normalised against
\* those instead of the freshly computed ones.
Setup_calc_pin_criticality_prev(node, max_req, worst_slack) ==
    calc_relaxed_criticality(
        [dp \in DOMAIN max_req |->
            IF dp \in DOMAIN prev_max_req_ THEN prev_max_req_[dp] ELSE max_req[dp]],
        [dp \in DOMAIN worst_slack |->
            IF dp \in DOMAIN prev_worst_slack_ THEN prev_worst_slack_[dp] ELSE worst_slack[dp]],
        setup_slacks[node])

\* Faulty variant: a pin whose stored slack is still NaN gets criticality 0 (a read of
\* the array update_slacks writes).
Setup_calc_pin_criticality_stored_slack(node, max_req, worst_slack) ==
    IF IsNaN(pin_slacks_[tnode_atom_pin[node]]) THEN Fin(0)
    ELSE calc_relaxed_criticality(max_req, worst_slack, setup_slacks[node])

Setup_calc_pin_criticality(node, max_req, worst_slack) ==
    calc_relaxed_criticality(max_req, worst_slack, setup_slacks[node])

\* One iteration of either criticality loop on the loop state st = [arr, aborted, stray].
Setup_update_pin_criticality(st, node, max_req, worst_slack, ub) ==
    LET pin == tnode_atom_pin[node]
    IN  IF pin = INVALID
        THEN IF ub = "abort" THEN [st EXCEPT !.aborted = TRUE]
                             ELSE [st EXCEPT !.stray = TRUE]
        ELSE [st EXCEPT !.arr[pin] = Setup_calc_pin_criticality(node, max_req, worst_slack)]

RECURSIVE Setup_criticality_loop(_, _, _, _, _)
Setup_criticality_loop(st, nodes, max_req, worst_slack, ub) ==
    IF nodes = <<>> \/ st.aborted THEN st
    ELSE Setup_criticality_loop(
             Setup_update_pin_criticality(st, Head(nodes), max_req, worst_slack, ub),
             Tail(nodes), max_req, worst_slack, ub)

\* Faulty variant: only the stored keys are compared against the fresh aggregates.
Setup_incremental_stored_keys(max_req, worst_slack) ==
    /\ \A k \in DOMAIN prev_max_req_ : k \in DOMAIN max_req /\ max_req[k] = prev_max_req_[k]
    /\ \A k \in DOMAIN prev_worst_slack_ :
           k \in DOMAIN worst_slack /\ worst_slack[k] = prev_worst_slack_[k]

\* The branch update_criticalities takes for freshly computed aggregates.
Setup_incremental(max_req, worst_slack) ==
    max_req = prev_max_req_ /\ worst_slack = prev_worst_slack_

\* Faulty variant: every node of the graph is processed on either branch.
Setup_criticality_nodes_all(max_req, worst_slack) == graph_nodes

\* Faulty variant: only the modified nodes are processed on either branch.
Setup_criticality_nodes_modified(max_req, worst_slack) == modified_nodes

\* The node set update_criticalities processes.
Setup_criticality_nodes(max_req, worst_slack) ==
    IF Setup_incremental(max_req, worst_slack) THEN modified_nodes ELSE graph_nodes

\* Faulty variant: the modified-criticality list is not cleared before it is refilled.
Setup_record_criticality_pins_append(nodes) ==
    nodes_to_pins(nodes, pins_with_modified_criticalities_)

\* The modified-criticality list after the loop: cleared, then refilled.
Setup_record_criticality_pins(nodes) == nodes_to_pins(nodes, <<>>)

\* Faulty variant: the previous aggregates are stored on the incremental branch only.
Setup_update_criticalities_prev_on_incremental(ub) ==
    LET max_req == Aggregates.max_req
        worst_slack == Aggregates.worst_slack
        nodes == Setup_criticality_nodes(max_req, worst_slack)
        incremental == Setup_incremental(max_req, worst_slack)
        st == Setup_criticality_loop(
                  [arr |-> pin_criticalities_, aborted |-> FALSE, stray |-> FALSE],
                  nodes, max_req, worst_slack, ub)
    IN  [arr |-> st.arr, aborted |-> st.aborted, stray |-> st.stray,
         path |-> IF incremental THEN "incremental" ELSE "full",
         pins |-> IF st.aborted THEN pins_with_modified_criticalities_
                  ELSE Setup_record_criticality_pins(nodes),
         prev_max_req |-> IF st.aborted \/ ~incremental THEN prev_max_req_ ELSE max_req,
         prev_worst_slack |-> IF st.aborted \/ ~incremental THEN prev_worst_slack_
                              ELSE worst_slack]

Setup_update_criticalities(ub) ==
    LET max_req == Aggregates.max_req
        worst_slack == Aggregates.worst_slack
        nodes == Setup_criticality_nodes(max_req, worst_slack)
        st == Setup_criticality_loop(
                  [arr |-> pin_criticalities_, aborted |-> FALSE, stray |-> FALSE],
                  nodes, max_req, worst_slack, ub)
    IN  [arr |-> st.arr, aborted |-> st.aborted, stray |-> st.stray,
         path |-> IF Setup_incremental(max_req, worst_slack) THEN "incremental" ELSE "full",
         pins |-> IF st.aborted THEN pins_with_modified_criticalities_
                  ELSE Setup_record_criticality_pins(nodes),
         prev_max_req |-> IF st.aborted THEN prev_max_req_ ELSE max_req,
         prev_worst_slack |-> IF st.aborted THEN prev_worst_slack_ ELSE worst_slack]

\* --------------------------------------------------- HoldSlackCrit: slacks
\* Faulty variant: a pin whose node has no hold-slack tags keeps its stored slack.
Hold_update_pin_slack_keep(st, pin) ==
    LET node == atom_pin_tnode(pin)
    IN  IF node = INVALID THEN [st EXCEPT !.aborted = TRUE]
        ELSE IF hold_slacks[node] = {} THEN st
        ELSE [st EXCEPT !.arr[pin] = find_minimum_tag(hold_slacks[node])]

\* One call of update_pin_slack on the loop state st = [arr, aborted]: VTR_ASSERT(node)
\* stops the process for a pin without a node.
Hold_update_pin_slack(st, pin) ==
    LET node == atom_pin_tnode(pin)
    IN  IF node = INVALID THEN [st EXCEPT !.aborted = TRUE]
        ELSE [st EXCEPT !.arr[pin] = find_minimum_tag(hold_slacks[node])]

RECURSIVE Hold_slack_loop(_, _)
Hold_slack_loop(st, pins) ==
    IF pins = <<>> \/ st.aborted THEN st
    ELSE Hold_slack_loop(Hold_update_pin_slack(st, Head(pins)), Tail(pins))

Hold_update_slacks ==
    Hold_slack_loop([arr |-> pin_slacks_, aborted |-> FALSE], netlist_pins)

\* -------------------------------------------- HoldSlackCrit: criticalities
\* The scan of one node's tags: range = [worst_slack, best_slack].
RECURSIVE Hold_slack_range_tags(_, _)
Hold_slack_range_tags(range, tags) ==
    IF tags = {} THEN range
    ELSE LET tag == CHOOSE t \in tags : TRUE
             slack == Fin(tag[2])
         IN  Hold_slack_range_tags([worst_slack |-> FMin(range.worst_slack, slack),
                                    best_slack |-> FMax(range.best_slack, slack)],
                                   tags \ {tag})

RECURSIVE Hold_slack_range(_, _)
Hold_slack_range(range, nodes) ==
    IF nodes = <<>> THEN range
    ELSE Hold_slack_range(Hold_slack_range_tags(range, hold_slacks[Head(nodes)]), Tail(nodes))

\* Faulty variant: the range is scanned over the nodes that have a pin only.
HoldRange_pin_nodes ==
    Hold_slack_range([worst_slack |-> PosInf, best_slack |-> NegInf],
                     SelectSeq(graph_nodes, LAMBDA n : tnode_atom_pin[n] # INVALID))

HoldRange == Hold_slack_range([worst_slack |-> PosInf, best_slack |-> NegInf], graph_nodes)

Hold_scale == FRecip(FAbs(FSub(HoldRange.best_slack, HoldRange.worst_slack)))
\* Faulty variant: the shift is the worst slack itself, not its negation.
Hold_shift_unnegated == HoldRange.worst_slack
Hold_shift == FNeg(HoldRange.worst_slack)

Hold_tag_criticality(slack, scale, shift) == FSub(Fin(1), FMul(scale, FAdd(slack, shift)))

\* Faulty variant: the per-pin maximum starts from 1 instead of the value passed in.
RECURSIVE Hold_max_tag_criticality_from_one(_, _, _, _)
Hold_max_tag_criticality_from_one(criticality, tags, scale, shift) ==
    IF tags = {} THEN FMax(Fin(1), criticality)
    ELSE LET tag == CHOOSE t \in tags : TRUE
         IN  Hold_max_tag_criticality_from_one(
                 FMax(criticality, Hold_tag_criticality(Fin(tag[2]), scale, shift)),
                 tags \ {tag}, scale, shift)

RECURSIVE Hold_max_tag_criticality(_, _, _, _)
Hold_max_tag_criticality(criticality, tags, scale, shift) ==
    IF tags = {} THEN criticality
    ELSE LET tag == CHOOSE t \in tags : TRUE
         IN  Hold_max_tag_criticality(
                 FMax(criticality, Hold_tag_criticality(Fin(tag[2]), scale, shift)),
                 tags \ {tag}, scale, shift)

\* calc_pin_criticality on the loop state st = [arr, aborted]: the three VTR_ASSERTs
\* stop the process.
Hold_calc_pin_criticality(st, pin, scale, shift) ==
    LET node == atom_pin_tnode(pin)
        criticality == Hold_max_tag_criticality(Fin(0), hold_slacks[node], scale, shift)
    IN  IF node = INVALID THEN [st EXCEPT !.aborted = TRUE]
        ELSE IF ~(FLe(Fin(0), criticality) /\ FLe(criticality, Fin(1)))
        THEN [st EXCEPT !.aborted = TRUE]
        ELSE [st EXCEPT !.arr[pin] = criticality]

RECURSIVE Hold_criticality_loop(_, _, _, _)
Hold_criticality_loop(st, pins, scale, shift) ==
    IF pins = <<>> \/ st.aborted THEN st
    ELSE Hold_criticality_loop(Hold_calc_pin_criticality(st, Head(pins), scale, shift),
                               Tail(pins), scale, shift)

Hold_update_criticalities ==
    Hold_criticality_loop([arr |-> pin_criticalities_, aborted |-> FALSE],
                          netlist_pins, Hold_scale, Hold_shift)

\* ------------------------------------------- the task group of the TBB build
\* No call of update_slacks_and_criticalities is running: both tasks are idle.
\* (overlapped: the latest call had both tasks inside their loops at the same time.)
Idle == [slack |-> "idle", slack_todo |-> {}, criticality |-> "idle",
         criticality_todo |-> {}, locals |-> <<>>, overlapped |-> FALSE]

\* ------------------------------------------------------------------- Init
\* The state after construction: both arrays hold NaN in every entry, the lists and
\* the previous aggregates are empty; the analyzer has not analysed anything yet.
\* The smaller netlist is explored for HoldSlackCrit only: SetupSlackCrit never
\* iterates over the pins of the netlist, so for it the smaller netlist behaves as
\* the larger one without its untouched last pin.
Init ==
    /\ evaluator \in {"SetupSlackCrit", "HoldSlackCrit"}
    /\ num_pins \in NetlistSizes
    /\ tnode_atom_pin \in Lookups
    /\ \A n \in Nodes : tnode_atom_pin[n] <= num_pins
    /\ num_pins = NumPins \/ evaluator = "HoldSlackCrit"
    /\ setup_slacks = [n \in Nodes |-> {}]
    /\ setup_required = [n \in Nodes |-> {}]
    /\ hold_slacks = [n \in Nodes |-> {}]
    /\ modified_nodes = <<>>
    /\ pin_slacks_ = [p \in Pins |-> NaN]
    /\ pin_criticalities_ = [p \in Pins |-> NaN]
    /\ pins_with_modified_slacks_ = <<>>
    /\ pins_with_modified_criticalities_ = <<>>
    /\ prev_max_req_ = EmptyMap
    /\ prev_worst_slack_ = EmptyMap
    /\ failed = FALSE
    /\ stray = FALSE
    /\ last = "constructor"
    /\ path = "none"
    /\ analyses = 0
    /\ task_group = Idle
    /\ sequential = <<>>

\* ------------------------------------------------------------ the analyzer
\* The tags of one node in one domain pair: none, or a required time and a slack.
Cells == {<<>>} \cup {<<r, s>> : r \in ReqTimes, s \in SlackTimes}

WithCell(tags, dp, t) == {x \in tags : x[1] # dp} \cup t

\* Every slack tag's domain pair has a required time and a slack on a logical output.
Consistent(slacks, required) ==
    LET lo == {logical_outputs[i] : i \in 1..Len(logical_outputs)}
    IN  \A n \in Nodes : \A t \in slacks[n] :
            /\ \E o \in lo : t[1] \in TagDomains(required[o])
            /\ \E o \in lo : t[1] \in TagDomains(slacks[o])

\* One incremental timing analysis: the tags of one node change in one domain pair,
\* and the analyzer reports as modified that node alone or every node of the graph.
SetupAnalyze ==
    /\ evaluator = "SetupSlackCrit"
    /\ ~failed
    /\ analyses < MaxAnalyses
    /\ \E n \in Nodes, dp \in DomainPairs, c \in Cells :
        LET slacks == [setup_slacks EXCEPT ![n] =
                          WithCell(@, dp, IF c = <<>> THEN {} ELSE {<<dp, c[2]>>})]
            required == [setup_required EXCEPT ![n] =
                          WithCell(@, dp, IF c = <<>> THEN {} ELSE {<<dp, c[1]>>})]
        IN  /\ slacks # setup_slacks \/ required # setup_required
            /\ Consistent(slacks, required)
            /\ setup_slacks' = slacks
            /\ setup_required' = required
            /\ modified_nodes' \in {graph_nodes, <<n>>}
    /\ analyses' = analyses + 1
    /\ last' = "analyze"
    /\ UNCHANGED <<tbb_vars, evaluator, num_pins, tnode_atom_pin, hold_slacks, object_vars, failed, stray, path>>

\* ------------------------------------------------- SetupSlackCrit: actions
SetupUpdateSlacks ==
    /\ evaluator = "SetupSlackCrit"
    /\ ~failed
    /\ \E ub \in Outcomes :
        LET r == Setup_update_slacks(ub)
        IN  /\ pin_slacks_' = r.arr
            /\ pins_with_modified_slacks_' = r.pins
            /\ failed' = r.aborted
            /\ stray' = (stray \/ r.stray)
    /\ last' = "update_slacks"
    /\ UNCHANGED <<tbb_vars, evaluator, num_pins, tnode_atom_pin, analyzer_vars, pin_criticalities_,
                   pins_with_modified_criticalities_, prev_max_req_, prev_worst_slack_,
                   path, analyses>>

SetupUpdateCriticalities ==
    /\ evaluator = "SetupSlackCrit"
    /\ ~failed
    /\ \E ub \in Outcomes :
        LET r == Setup_update_criticalities(ub)
        IN  /\ pin_criticalities_' = r.arr
            /\ pins_with_modified_criticalities_' = r.pins
            /\ prev_max_req_' = r.prev_max_req
            /\ prev_worst_slack_' = r.prev_worst_slack
            /\ path' = r.path
            /\ failed' = r.aborted
            /\ stray' = (stray \/ r.stray)
    /\ last' = "update_criticalities"
    /\ UNCHANGED <<tbb_vars, evaluator, num_pins, tnode_atom_pin, analyzer_vars, pin_slacks_,
                   pins_with_modified_slacks_, analyses>>

\* update_slacks_and_criticalities without VPR_USE_TBB: update_slacks, then
\* update_criticalities (which is not reached when update_slacks stopped the process).
SetupUpdateSlacksAndCriticalities ==
    /\ evaluator = "SetupSlackCrit"
    /\ ~failed
    /\ \E ub_slacks \in Outcomes, ub_criticalities \in Outcomes :
        LET s == Setup_update_slacks(ub_slacks)
            c == Setup_update_criticalities(ub_criticalities)
        IN  /\ pin_slacks_' = s.arr
            /\ pins_with_modified_slacks_' = s.pins
            /\ pin_criticalities_' = IF s.aborted THEN pin_criticalities_ ELSE c.arr
            /\ pins_with_modified_criticalities_' =
                   IF s.aborted THEN pins_with_modified_criticalities_ ELSE c.pins
            /\ prev_max_req_' = IF s.aborted THEN prev_max_req_ ELSE c.prev_max_req
            /\ prev_worst_slack_' = IF s.aborted THEN prev_worst_slack_ ELSE c.prev_worst_slack
            /\ path' = IF s.aborted THEN path ELSE c.path
            /\ failed' = (s.aborted \/ c.aborted)
            /\ stray' = (stray \/ s.stray \/ (~s.aborted /\ c.stray))
    /\ last' = "update_slacks_and_criticalities"
    /\ UNCHANGED <<tbb_vars, evaluator, num_pins, tnode_atom_pin, analyzer_vars, analyses>>

\* -------------------------------------------------- HoldSlackCrit: actions
\* One timing analysis by the hold analyzer: the hold-slack tags of one node change.
HoldAnalyze ==
    /\ evaluator = "HoldSlackCrit"
    /\ ~failed
    /\ analyses < MaxAnalyses
    /\ \E n \in Nodes, times \in [DomainPairs -> HoldTimes \cup {INVALID}] :
        LET tags == {<<dp, times[dp]>> : dp \in {d \in DomainPairs : times[d] # INVALID}}
        IN  /\ tags # hold_slacks[n]
            /\ hold_slacks' = [hold_slacks EXCEPT ![n] = tags]
    /\ analyses' = analyses + 1
    /\ last' = "analyze"
    /\ UNCHANGED <<tbb_vars, evaluator, num_pins, tnode_atom_pin, setup_slacks, setup_required, modified_nodes,
                   object_vars, failed, stray, path>>

HoldUpdateSlacks ==
    /\ evaluator = "HoldSlackCrit"
    /\ ~failed
    /\ pin_slacks_' = Hold_update_slacks.arr
    /\ failed' = Hold_update_slacks.aborted
    /\ last' = "update_slacks"
    /\ UNCHANGED <<tbb_vars, evaluator, num_pins, tnode_atom_pin, analyzer_vars, pin_criticalities_,
                   pins_with_modified_slacks_, pins_with_modified_criticalities_,
                   prev_max_req_, prev_worst_slack_, stray, path, analyses>>

HoldUpdateCriticalities ==
    /\ evaluator = "HoldSlackCrit"
    /\ ~failed
    /\ pin_criticalities_' = Hold_update_criticalities.arr
    /\ failed' = Hold_update_criticalities.aborted
    /\ last' = "update_criticalities"
    /\ UNCHANGED <<tbb_vars, evaluator, num_pins, tnode_atom_pin, analyzer_vars, pin_slacks_,
                   pins_with_modified_slacks_, pins_with_modified_criticalities_,
                   prev_max_req_, prev_worst_slack_, stray, path, analyses>>

\* update_slacks_and_criticalities without VPR_USE_TBB.
HoldUpdateSlacksAndCriticalities ==
    /\ evaluator = "HoldSlackCrit"
    /\ ~failed
    /\ pin_slacks_' = Hold_update_slacks.arr
    /\ pin_criticalities_' = IF Hold_update_slacks.aborted THEN pin_criticalities_
                             ELSE Hold_update_criticalities.arr
    /\ failed' = (Hold_update_slacks.aborted \/ Hold_update_criticalities.aborted)
    /\ last' = "update_slacks_and_criticalities"
    /\ UNCHANGED <<tbb_vars, evaluator, num_pins, tnode_atom_pin, analyzer_vars,
                   pins_with_modified_slacks_, pins_with_modified_criticalities_,
                   prev_max_req_, prev_worst_slack_, stray, path, analyses>>

Next ==
    \/ SetupAnalyze
    \/ SetupUpdateSlacks
    \/ SetupUpdateCriticalities
    \/ SetupUpdateSlacksAndCriticalities
    \/ HoldAnalyze
    \/ HoldUpdateSlacks
    \/ HoldUpdateCriticalities
    \/ HoldUpdateSlacksAndCriticalities

Spec == Init /\ [][Next]_vars

\* ======================================================================
\* The VPR_USE_TBB build of update_slacks_and_criticalities: update_slacks and
\* update_criticalities run as two tasks of one task group, and g.wait() joins them.
\* The loops that are tbb::parallel_for_each take their elements in any order; one
\* step of a task is one loop iteration, or the code before or after the loop.
\* ======================================================================
MaxTbbAnalyses == 1    \* timing analyses in one run of the TBB build

Range(seq) == {seq[i] : i \in DOMAIN seq}

TbbAnalyze ==
    /\ task_group.slack = "idle"
    /\ analyses < MaxTbbAnalyses
    /\ SetupAnalyze \/ HoldAnalyze

\* g.run(update_slacks); g.run(update_criticalities): both tasks are spawned.
TbbRun ==
    /\ ~failed
    /\ task_group.slack = "idle"
    /\ task_group' = [slack |-> "loop", criticality |-> "aggregate",
                      slack_todo |-> IF evaluator = "SetupSlackCrit"
                                     THEN Range(modified_nodes) ELSE Range(netlist_pins),
                      criticality_todo |-> {}, locals |-> <<>>, overlapped |-> FALSE]
    /\ sequential' =
           IF evaluator = "SetupSlackCrit"
           THEN LET s == Setup_update_slacks("stray")
                    c == Setup_update_criticalities("stray")
                IN  <<s.arr, c.arr, s.pins, c.pins, c.prev_max_req, c.prev_worst_slack, c.path>>
           ELSE <<Hold_update_slacks.arr, Hold_update_criticalities.arr,
                  pins_with_modified_slacks_, pins_with_modified_criticalities_,
                  prev_max_req_, prev_worst_slack_, path>>
    /\ last' = "task_group"
    /\ UNCHANGED <<evaluator, num_pins, tnode_atom_pin, analyzer_vars, object_vars,
                   failed, stray, path, analyses>>

\* ---- task 1 of SetupSlackCrit: update_slacks
\* One iteration of the parallel loop over the modified nodes.
TbbSetupSlackNode ==
    /\ evaluator = "SetupSlackCrit" /\ ~failed
    /\ task_group.slack = "loop"
    /\ \E node \in task_group.slack_todo, ub \in Outcomes :
        LET st == Setup_update_pin_slack(
                      [arr |-> pin_slacks_, aborted |-> FALSE, stray |-> FALSE], node, ub)
        IN  /\ pin_slacks_' = st.arr
            /\ failed' = st.aborted
            /\ stray' = (stray \/ st.stray)
            /\ task_group' = [task_group EXCEPT
                                 !.slack_todo = @ \ {node},
                                 !.overlapped = @ \/ task_group.criticality = "loop"]
    /\ UNCHANGED <<evaluator, num_pins, tnode_atom_pin, analyzer_vars, pin_criticalities_,
                   pins_with_modified_slacks_, pins_with_modified_criticalities_,
                   prev_max_req_, prev_worst_slack_, last, path, analyses, sequential>>

\* After the loop: the modified-slack list is cleared and refilled; the task ends.
TbbSetupSlackRecord ==
    /\ evaluator = "SetupSlackCrit" /\ ~failed
    /\ task_group.slack = "loop" /\ task_group.slack_todo = {}
    /\ pins_with_modified_slacks_' = Setup_record_slack_pins(modified_nodes)
    /\ task_group' = [task_group EXCEPT !.slack = "done"]
    /\ UNCHANGED <<evaluator, num_pins, tnode_atom_pin, analyzer_vars, pin_slacks_,
                   pin_criticalities_, pins_with_modified_criticalities_,
                   prev_max_req_, prev_worst_slack_, failed, stray, last, path, analyses,
                   sequential>>

\* ---- task 2 of SetupSlackCrit: update_criticalities
\* The aggregation over the logical outputs and the choice of the branch.
TbbSetupAggregate ==
    /\ evaluator = "SetupSlackCrit" /\ ~failed
    /\ task_group.criticality = "aggregate"
    /\ LET max_req == Aggregates.max_req
           worst_slack == Aggregates.worst_slack
           nodes == Setup_criticality_nodes(max_req, worst_slack)
       IN  task_group' = [task_group EXCEPT
               !.criticality = "loop",
               !.criticality_todo = Range(nodes),
               !.locals = [max_req |-> max_req, worst_slack |-> worst_slack,
                           nodes |-> nodes,
                           path |-> IF Setup_incremental(max_req, worst_slack)
                                    THEN "incremental" ELSE "full"]]
    /\ UNCHANGED <<evaluator, num_pins, tnode_atom_pin, analyzer_vars, object_vars,
                   failed, stray, last, path, analyses, sequential>>

\* One iteration of the parallel loop of the branch taken.
TbbSetupCriticalityNode ==
    /\ evaluator = "SetupSlackCrit" /\ ~failed
    /\ task_group.criticality = "loop"
    /\ \E node \in task_group.criticality_todo, ub \in Outcomes :
        LET st == Setup_update_pin_criticality(
                      [arr |-> pin_criticalities_, aborted |-> FALSE, stray |-> FALSE],
                      node, task_group.locals.max_req, task_group.locals.worst_slack, ub)
        IN  /\ pin_criticalities_' = st.arr
            /\ failed' = st.aborted
            /\ stray' = (stray \/ st.stray)
            /\ task_group' = [task_group EXCEPT
                                 !.criticality_todo = @ \ {node},
                                 !.overlapped = @ \/ task_group.slack = "loop"]
    /\ UNCHANGED <<evaluator, num_pins, tnode_atom_pin, analyzer_vars, pin_slacks_,
                   pins_with_modified_slacks_, pins_with_modified_criticalities_,
                   prev_max_req_, prev_worst_slack_, last, path, analyses, sequential>>

\* After the loop: the modified-criticality list is cleared and refilled and the
\* aggregates are stored; the task ends.
TbbSetupCriticalityRecord ==
    /\ evaluator = "SetupSlackCrit" /\ ~failed
    /\ task_group.criticality = "loop" /\ task_group.criticality_todo = {}
    /\ pins_with_modified_criticalities_' =
           Setup_record_criticality_pins(task_group.locals.nodes)
    /\ prev_max_req_' = task_group.locals.max_req
    /\ prev_worst_slack_' = task_group.locals.worst_slack
    /\ path' = task_group.locals.path
    /\ task_group' = [task_group EXCEPT !.criticality = "done"]
    /\ UNCHANGED <<evaluator, num_pins, tnode_atom_pin, analyzer_vars, pin_slacks_,
                   pin_criticalities_, pins_with_modified_slacks_, failed, stray, last,
                   analyses, sequential>>

\* ---- task 1 of HoldSlackCrit: update_slacks, a sequential loop over the pins
TbbHoldSlackPin ==
    /\ evaluator = "HoldSlackCrit" /\ ~failed
    /\ task_group.slack = "loop" /\ task_group.slack_todo # {}
    /\ LET pin == SetMin(task_group.slack_todo)
           st == Hold_update_pin_slack([arr |-> pin_slacks_, aborted |-> FALSE], pin)
       IN  /\ pin_slacks_' = st.arr
           /\ failed' = st.aborted
           /\ task_group' = [task_group EXCEPT
                                !.slack_todo = @ \ {pin},
                                !.overlapped = @ \/ task_group.criticality = "loop"]
    /\ UNCHANGED <<evaluator, num_pins, tnode_atom_pin, analyzer_vars, pin_criticalities_,
                   pins_with_modified_slacks_, pins_with_modified_criticalities_,
                   prev_max_req_, prev_worst_slack_, stray, last, path, analyses, sequential>>

TbbHoldSlackReturn ==
    /\ evaluator = "HoldSlackCrit" /\ ~failed
    /\ task_group.slack = "loop" /\ task_group.slack_todo = {}
    /\ task_group' = [task_group EXCEPT !.slack = "done"]
    /\ UNCHANGED <<evaluator, num_pins, tnode_atom_pin, analyzer_vars, object_vars,
                   failed, stray, last, path, analyses, sequential>>

\* ---- task 2 of HoldSlackCrit: update_criticalities
\* The scan for worst_slack and best_slack, then scale and shift.
TbbHoldRange ==
    /\ evaluator = "HoldSlackCrit" /\ ~failed
    /\ task_group.criticality = "aggregate"
    /\ task_group' = [task_group EXCEPT
           !.criticality = "loop",
           !.criticality_todo = Range(netlist_pins),
           !.locals = [scale |-> Hold_scale, shift |-> Hold_shift]]
    /\ UNCHANGED <<evaluator, num_pins, tnode_atom_pin, analyzer_vars, object_vars,
                   failed, stray, last, path, analyses, sequential>>

\* One iteration of the parallel loop over the pins.
TbbHoldCriticalityPin ==
    /\ evaluator = "HoldSlackCrit" /\ ~failed
    /\ task_group.criticality = "loop"
    /\ \E pin \in task_group.criticality_todo :
        LET st == Hold_calc_pin_criticality(
                      [arr |-> pin_criticalities_, aborted |-> FALSE], pin,
                      task_group.locals.scale, task_group.locals.shift)
        IN  /\ pin_criticalities_' = st.arr
            /\ failed' = st.aborted
            /\ task_group' = [task_group EXCEPT
                                 !.criticality_todo = @ \ {pin},
                                 !.overlapped = @ \/ task_group.slack = "loop"]
    /\ UNCHANGED <<evaluator, num_pins, tnode_atom_pin, analyzer_vars, pin_slacks_,
                   pins_with_modified_slacks_, pins_with_modified_criticalities_,
                   prev_max_req_, prev_worst_slack_, stray, last, path, analyses, sequential>>

TbbHoldCriticalityReturn ==
    /\ evaluator = "HoldSlackCrit" /\ ~failed
    /\ task_group.criticality = "loop" /\ task_group.criticality_todo = {}
    /\ task_group' = [task_group EXCEPT !.criticality = "done"]
    /\ UNCHANGED <<evaluator, num_pins, tnode_atom_pin, analyzer_vars, object_vars,
                   failed, stray, last, path, analyses, sequential>>

\* g.wait(): both tasks have ended and update_slacks_and_criticalities returns.
TbbWait ==
    /\ ~failed
    /\ task_group.slack = "done" /\ task_group.criticality = "done"
    /\ task_group' = [Idle EXCEPT !.overlapped = task_group.overlapped]
    /\ last' = "update_slacks_and_criticalities"
    /\ UNCHANGED <<evaluator, num_pins, tnode_atom_pin, analyzer_vars, object_vars,
                   failed, stray, path, analyses, sequential>>

TbbNext ==
    \/ TbbAnalyze
    \/ TbbRun
    \/ TbbSetupSlackNode
    \/ TbbSetupSlackRecord
    \/ TbbSetupAggregate
    \/ TbbSetupCriticalityNode
    \/ TbbSetupCriticalityRecord
    \/ TbbHoldSlackPin
    \/ TbbHoldSlackReturn
    \/ TbbHoldRange
    \/ TbbHoldCriticalityPin
    \/ TbbHoldCriticalityReturn
    \/ TbbWait

TbbSpec == Init /\ [][TbbNext]_vars

\* ======================================================================
\* Properties.  The expected values below are stated from the tags, not
\* through the operators that model the code.
\* ======================================================================
IsSetup == evaluator = "SetupSlackCrit"
IsHold == evaluator = "HoldSlackCrit"

LogicalOutputSet == {logical_outputs[i] : i \in DOMAIN logical_outputs}

\* The value in [0, 1]: a NaN is not.
InUnit(x) == FLe(Fin(0), x) /\ FLe(x, Fin(1))

\* Maximum required time and minimum setup slack per domain pair over the logical outputs.
ExpectedMaxReq ==
    LET tags == UNION {setup_required[n] : n \in LogicalOutputSet}
    IN  [dp \in TagDomains(tags) |-> SetMax({t[2] : t \in {x \in tags : x[1] = dp}})]

ExpectedWorstSlack ==
    LET tags == UNION {setup_slacks[n] : n \in LogicalOutputSet}
    IN  [dp \in TagDomains(tags) |-> SetMin({t[2] : t \in {x \in tags : x[1] = dp}})]

\* The aggregates of the current tags equal the ones the previous call stored.
AggregatesUnchanged ==
    ExpectedMaxReq = prev_max_req_ /\ ExpectedWorstSlack = prev_worst_slack_

\* The criticality a recompute of the node with the current tags and aggregates gives.
ExpectedCriticality(node) ==
    calc_relaxed_criticality(ExpectedMaxReq, ExpectedWorstSlack, setup_slacks[node])

\* The pins of a node sequence, in order, nodes without a pin left out.
PinProjection(nodes) ==
    SelectSeq([i \in DOMAIN nodes |-> tnode_atom_pin[nodes[i]]], LAMBDA p : p # INVALID)

ValidPins(pins) == SelectSeq(pins, LAMBDA p : p # INVALID)

ModifiedPins == {tnode_atom_pin[modified_nodes[i]] : i \in DOMAIN modified_nodes} \ {INVALID}
GraphPins == {tnode_atom_pin[n] : n \in Nodes} \ {INVALID}

\* The step is a call that runs the criticality update / the slack update.
CriticalityCall == last' \in {"update_criticalities", "update_slacks_and_criticalities"}
SlackCall == last' \in {"update_slacks", "update_slacks_and_criticalities"}
AfterCriticalityCall == last \in {"update_criticalities", "update_slacks_and_criticalities"}
AfterSlackCall == last \in {"update_slacks", "update_slacks_and_criticalities"}

C2_IncrementalFrame ==
    [][(IsSetup /\ CriticalityCall /\ AggregatesUnchanged) =>
           \A p \in Pins \ ModifiedPins : pin_criticalities_'[p] = pin_criticalities_[p]]_vars

\* C2 witness: the incremental branch ran on a non-empty modified set and a pin outside
\* it holds a non-zero criticality computed by an earlier call.
C2_Witness ==
    /\ IsSetup /\ last = "update_criticalities" /\ ~failed /\ path = "incremental"
    /\ ModifiedPins # {}
    /\ \E p \in Pins \ ModifiedPins : FLt(Fin(0), pin_criticalities_[p])

\* ---------------------------------------------------------------------- C3
\* C3: a criticality update that finds the aggregates different from the stored
\* previous ones, and returns, leaves every pin mapped from a graph node with the
\* criticality recomputed from the current tags and aggregates.
C3_FullRecompute ==
    [][(IsSetup /\ CriticalityCall /\ ~AggregatesUnchanged /\ ~failed') =>
           \A n \in Nodes : tnode_atom_pin[n] # INVALID =>
               pin_criticalities_'[tnode_atom_pin[n]] = ExpectedCriticality(n)]_vars

\* C3 witness: the full branch ran with one modified node, and a pin of another node
\* holds a non-zero recomputed criticality.
C3_Witness ==
    /\ IsSetup /\ last = "update_criticalities" /\ ~failed /\ path = "full"
    /\ Len(modified_nodes) = 1
    /\ \E p \in GraphPins \ ModifiedPins :
           /\ FLt(Fin(0), pin_criticalities_[p])
           /\ pin_criticalities_[p] = ExpectedCriticality(atom_pin_tnode(p))

\* ---------------------------------------------------------------------- C4
\* C4: update_slacks_and_criticalities called again, with no analysis since the
\* previous call of it, changes no entry of the slack or the criticality array.
C4_Idempotent ==
    [][(last = "update_slacks_and_criticalities"
        /\ last' = "update_slacks_and_criticalities" /\ ~failed') =>
           /\ pin_slacks_' = pin_slacks_
           /\ pin_criticalities_' = pin_criticalities_]_vars

\* C4 witness: after the only analysis, an update_slacks_and_criticalities call found
\* the aggregates of an earlier update of the same analyzer state stored (it took the
\* incremental branch) and its arrays hold computed values.
C4_Witness ==
    /\ last = "update_slacks_and_criticalities" /\ ~failed /\ analyses = 1
    /\ \/ /\ IsSetup /\ path = "incremental" /\ DOMAIN prev_max_req_ # {}
          /\ \E p \in Pins : IsFinite(pin_slacks_[p]) /\ FLt(Fin(0), pin_criticalities_[p])
       \/ /\ IsHold
          /\ \E p \in Pins : IsFinite(pin_slacks_[p]) /\ FLt(Fin(0), pin_criticalities_[p])

C6_ExactProjection ==
    (IsSetup /\ AfterSlackCall /\ ~failed) =>
        pins_with_modified_slacks_ = PinProjection(modified_nodes)

C8_MinimumSlack ==
    (IsSetup /\ AfterSlackCall /\ ~failed) =>
        \A i \in DOMAIN modified_nodes :
            LET node == modified_nodes[i]
                pin == tnode_atom_pin[node]
            IN  pin # INVALID =>
                    pin_slacks_[pin] =
                        IF setup_slacks[node] = {} THEN PosInf
                        ELSE Fin(SetMin(TagTimes(setup_slacks[node])))

\* C8 witness: update_slacks has returned; one modified node has two tags of different
\* times and its pin holds the smaller, another has no tags and its pin holds +infinity.
C8_Witness ==
    /\ IsSetup /\ last = "update_slacks" /\ ~failed
    /\ \E i, j \in DOMAIN modified_nodes :
        LET n == modified_nodes[i]
            m == modified_nodes[j]
        IN  /\ tnode_atom_pin[n] # INVALID /\ tnode_atom_pin[m] # INVALID
            /\ Cardinality(TagTimes(setup_slacks[n])) = 2
            /\ pin_slacks_[tnode_atom_pin[n]] = Fin(SetMin(TagTimes(setup_slacks[n])))
            /\ setup_slacks[m] = {}
            /\ pin_slacks_[tnode_atom_pin[m]] = PosInf

\* ---------------------------------------------------------------------- C9
\* C9: update_slacks changes no entry of the criticality array and no slack entry of
\* a pin that is not mapped from a modified node.
C9_SlackFrame ==
    [][(IsSetup /\ last' = "update_slacks") =>
           /\ pin_criticalities_' = pin_criticalities_
           /\ \A p \in Pins \ ModifiedPins : pin_slacks_'[p] = pin_slacks_[p]]_vars

\* C9 witness: update_slacks has returned after a criticality update; a modified pin
\* holds a finite slack, a pin outside the modified set still holds its NaN slack,
\* and the criticality array holds computed values.
C9_Witness ==
    /\ IsSetup /\ last = "update_slacks" /\ ~failed
    /\ \E p \in ModifiedPins : IsFinite(pin_slacks_[p])
    /\ \E q \in Pins \ ModifiedPins : IsNaN(pin_slacks_[q])
    /\ \E r \in Pins : FLt(Fin(0), pin_criticalities_[r])

\* --------------------------------------------------------------------- C10
\* C10 as stated: a setup update whose modified node set holds a node without a pin
\* does not fail and writes nothing on behalf of that node.
C10_SilentSkip ==
    (/\ IsSetup
     /\ AfterSlackCall \/ AfterCriticalityCall
     /\ \E i \in DOMAIN modified_nodes : tnode_atom_pin[modified_nodes[i]] = INVALID) =>
        ~failed /\ ~stray

\* ----------------------------------------------------------------------
\* The hold-slack tag times of the node a pin maps to.
HoldTimesOf(pin) == {t[2] : t \in hold_slacks[atom_pin_tnode(pin)]}

ExpectedHoldSlack(pin) ==
    IF HoldTimesOf(pin) = {} THEN PosInf
    ELSE Fin(CHOOSE x \in HoldTimesOf(pin) : \A y \in HoldTimesOf(pin) : x <= y)

\* C11: after every HoldSlackCrit::update_slacks call that returns, every pin of the
\* netlist holds the minimum time over the hold-slack tags of its node, or +infinity
\* when the node has none; no pin keeps a stale or NaN slack.  (A pin without a node
\* fails VTR_ASSERT(node): that call does not return.)
C11_EveryPinSlack ==
    (IsHold /\ AfterSlackCall /\ ~failed) =>
        \A p \in Pins : /\ atom_pin_tnode(p) # INVALID
                        /\ pin_slacks_[p] = ExpectedHoldSlack(p)
                        /\ ~IsNaN(pin_slacks_[p])

\* A returned hold update_slacks, before any criticality update, where one pin's node
\* has two tags of different times and another pin's node has none.
C11_Witness ==
    /\ IsHold /\ last = "update_slacks" /\ ~failed /\ analyses = MaxAnalyses
    /\ \E p \in Pins : Cardinality(HoldTimesOf(p)) > 1 /\ IsFinite(pin_slacks_[p])
    /\ \E q \in Pins : HoldTimesOf(q) = {} /\ pin_slacks_[q] = PosInf
    /\ \A r \in Pins : IsNaN(pin_criticalities_[r])

\* ----------------------------------------------------------------------
\* C12: after every HoldSlackCrit::update_criticalities call every pin's hold
\* criticality lies in [0, 1], whatever the analyzer state, and the range assertions of
\* calc_pin_criticality never fail: a hold update only stops on a pin without a node.
\* Pins whose node has no hold-slack tags and graph nodes without a pin are included.
C12_HoldInUnit ==
    IsHold =>
        /\ \A p \in Pins : IsNaN(pin_criticalities_[p]) \/ InUnit(pin_criticalities_[p])
        /\ (AfterCriticalityCall /\ ~failed) => \A p \in Pins : InUnit(pin_criticalities_[p])
        /\ failed => \E p \in Pins : atom_pin_tnode(p) = INVALID

\* A returned hold update_criticalities where a node without a pin carries hold-slack
\* tags, one pin's node has none, and one pin lies strictly between 0 and 1.
C12_Witness ==
    /\ IsHold /\ last = "update_criticalities" /\ ~failed
    /\ \E n \in Nodes : tnode_atom_pin[n] = INVALID /\ hold_slacks[n] # {}
    /\ \E p \in Pins : HoldTimesOf(p) = {} /\ InUnit(pin_criticalities_[p])
    /\ \E q \in Pins : FLt(Fin(0), pin_criticalities_[q]) /\ FLt(pin_criticalities_[q], Fin(1))

\* ----------------------------------------------------------------------
\* The hold-slack tag times over all nodes of the graph, their minimum and maximum.
HoldAllTimes == {t[2] : t \in UNION {hold_slacks[n] : n \in Nodes}}
HoldWorst == CHOOSE x \in HoldAllTimes : \A y \in HoldAllTimes : x <= y
HoldBest == CHOOSE x \in HoldAllTimes : \A y \in HoldAllTimes : y <= x

\* max over the tags of the pin's node of 1 - (slack - worst) / (best - worst).
ExpectedHoldCriticality(pin) ==
    LET values == {Rat(HoldBest - s, HoldBest - HoldWorst) : s \in HoldTimesOf(pin)}
    IN  CHOOSE c \in values : \A v \in values : FLe(v, c)

\* C13: hold criticality is one global linear map.  With worst and best the minimum and
\* maximum hold-slack tag values over all graph nodes and best > worst, a pin's hold
\* criticality is the maximum over its node's tags of 1 - (slack - worst)/(best - worst);
\* a pin carrying the global worst slack gets 1, a pin whose only tag value is the
\* global best gets 0.
C13_GlobalLinearMap ==
    (IsHold /\ AfterCriticalityCall /\ ~failed /\ HoldAllTimes # {} /\ HoldWorst < HoldBest) =>
        \A p \in Pins : HoldTimesOf(p) # {} =>
            /\ pin_criticalities_[p] = ExpectedHoldCriticality(p)
            /\ HoldWorst \in HoldTimesOf(p) => pin_criticalities_[p] = Fin(1)
            /\ HoldTimesOf(p) = {HoldBest} => pin_criticalities_[p] = Fin(0)

\* The spec's example: hold slacks -2 and 3 on two pins give criticalities 1 and 0.
C13_Witness ==
    /\ IsHold /\ AfterCriticalityCall /\ ~failed
    /\ \E p \in Pins : HoldTimesOf(p) = {-2} /\ pin_criticalities_[p] = Fin(1)
    /\ \E q \in Pins : HoldTimesOf(q) = {3} /\ pin_criticalities_[q] = Fin(0)

\* ----------------------------------------------------------------------
\* C14 as stated: when the global best and worst hold slack coincide,
\* update_criticalities guards the zero spread: the scale used for the pins is neither
\* infinite nor NaN, no stored hold criticality is infinite or NaN, and the call does
\* not fail.  (Netlists where every pin has a node, so that no lookup assertion fires.)
C14_ZeroSpreadGuarded ==
    (/\ IsHold /\ AfterCriticalityCall
     /\ \A p \in Pins : atom_pin_tnode(p) # INVALID
     /\ HoldAllTimes # {} /\ HoldWorst = HoldBest) =>
        /\ IsFinite(Hold_scale)
        /\ \A p \in Pins : IsFinite(pin_criticalities_[p])
        /\ ~failed

\* ----------------------------------------------------------------------
\* C20: after HoldSlackCrit::update_slacks_and_criticalities, a pin whose node carries
\* no hold-slack tags has hold criticality exactly 0 while its hold slack is
\* +infinity, whatever the global best and worst slack are; no pin value is below 0,
\* because the per-pin maximum starts from 0.
C20_UntaggedPinZero ==
    (IsHold /\ last = "update_slacks_and_criticalities" /\ ~failed) =>
        /\ \A p \in Pins : HoldTimesOf(p) = {} =>
               (pin_criticalities_[p] = Fin(0) /\ pin_slacks_[p] = PosInf)
        /\ \A p \in Pins : FLe(Fin(0), pin_criticalities_[p])

\* A returned update_slacks_and_criticalities with a spread between the global worst
\* and best slack, one pin without tags (criticality 0, slack +infinity) and one pin
\* with a finite slack and a positive criticality.
C20_Witness ==
    /\ IsHold /\ last = "update_slacks_and_criticalities" /\ ~failed
    /\ HoldAllTimes # {} /\ HoldWorst < HoldBest
    /\ \E p \in Pins : /\ HoldTimesOf(p) = {}
                       /\ pin_criticalities_[p] = Fin(0) /\ pin_slacks_[p] = PosInf
    /\ \E q \in Pins : IsFinite(pin_slacks_[q]) /\ FLt(Fin(0), pin_criticalities_[q])

\* ----------------------------------------------------------------------
\* C17: at the end of every setup update_criticalities call that returns, on either
\* path, the stored previous aggregates are the aggregates of the current tags, so the
\* next call's choice of path compares against this call only: with the aggregate
\* sequence A, B, A the third call takes the full path.
C17_PrevIsLatest ==
    (IsSetup /\ AfterCriticalityCall /\ ~failed) =>
        /\ path \in {"incremental", "full"}
        /\ prev_max_req_ = ExpectedMaxReq
        /\ prev_worst_slack_ = ExpectedWorstSlack

\* The aggregates are empty again (as at construction) after having been non-empty at
\* the previous call, and the call has taken the full path.
C17_Witness ==
    /\ IsSetup /\ last = "update_criticalities" /\ ~failed
    /\ analyses = 2 /\ path = "full"
    /\ ExpectedMaxReq = EmptyMap /\ prev_max_req_ = EmptyMap
    /\ \E p \in Pins : pin_criticalities_[p] = Fin(0)

\* ----------------------------------------------------------------------
\* The domain pairs with at least one tag on a logical-output node.
RequiredDomainsAtOutputs ==
    {dp \in DomainPairs : \E n \in LogicalOutputSet : \E t \in setup_required[n] : t[1] = dp}
SlackDomainsAtOutputs ==
    {dp \in DomainPairs : \E n \in LogicalOutputSet : \E t \in setup_slacks[n] : t[1] = dp}

\* C18: the aggregates update_criticalities computes are per domain pair: max_required
\* is the maximum over the DATA_REQUIRED tags of that pair on logical-output nodes,
\* worst_slack the minimum over the setup-slack tags of that pair on logical-output
\* nodes; a domain pair is a key exactly when at least one such tag exists, and tags on
\* other nodes do not contribute.
C18_AggregatesPerDomainPair ==
    IsSetup =>
        /\ DOMAIN Aggregates.max_req = RequiredDomainsAtOutputs
        /\ DOMAIN Aggregates.worst_slack = SlackDomainsAtOutputs
        /\ \A dp \in RequiredDomainsAtOutputs :
               /\ \E n \in LogicalOutputSet : <<dp, Aggregates.max_req[dp]>> \in setup_required[n]
               /\ \A n \in LogicalOutputSet : \A t \in setup_required[n] :
                      t[1] = dp => t[2] <= Aggregates.max_req[dp]
        /\ \A dp \in SlackDomainsAtOutputs :
               /\ \E n \in LogicalOutputSet : <<dp, Aggregates.worst_slack[dp]>> \in setup_slacks[n]
               /\ \A n \in LogicalOutputSet : \A t \in setup_slacks[n] :
                      t[1] = dp => Aggregates.worst_slack[dp] <= t[2]

\* A returned update_criticalities has stored the aggregates of two logical outputs
\* that carry different required times and different slacks in the same domain pair,
\* while the other domain pair has no tag and is not a key.
C18_Witness ==
    /\ IsSetup /\ last = "update_criticalities" /\ ~failed
    /\ \E dp \in DomainPairs : \E n, o \in LogicalOutputSet :
           /\ \E t \in setup_required[n] : t[1] = dp /\ t[2] < prev_max_req_[dp]
           /\ <<dp, prev_max_req_[dp]>> \in setup_required[o]
           /\ \E t \in setup_slacks[o] : t[1] = dp /\ prev_worst_slack_[dp] < t[2]
           /\ <<dp, prev_worst_slack_[dp]>> \in setup_slacks[n]
    /\ DOMAIN prev_max_req_ # DomainPairs

\* ----------------------------------------------------------------------
\* C19: the stored previous aggregates start empty, so the first setup
\* update_criticalities after construction takes the full path whenever a logical
\* output carries a required-time or setup-slack tag; when that call returns, no pin
\* mapped from a node of the timing graph still holds the NaN of the constructor.
\* (path = "none" holds exactly until the first criticality update.)
C19_FirstCallFull ==
    [][/\ path = "none" => (prev_max_req_ = EmptyMap /\ prev_worst_slack_ = EmptyMap)
       /\ (/\ IsSetup /\ CriticalityCall /\ path = "none" /\ ~failed'
           /\ RequiredDomainsAtOutputs \cup SlackDomainsAtOutputs # {}) =>
              /\ path' = "full"
              /\ \A p \in GraphPins : ~IsNaN(pin_criticalities_'[p])]_vars

\* After one analysis and no slack update, a returned update_criticalities has taken
\* the full path and every pin mapped from a node has a criticality.
C19_Witness ==
    /\ IsSetup /\ last = "update_criticalities" /\ ~failed
    /\ analyses = 1 /\ path = "full" /\ prev_max_req_ # EmptyMap /\ ~stray
    /\ \A p \in Pins : IsNaN(pin_slacks_[p])
    /\ \A p \in GraphPins : InUnit(pin_criticalities_[p])
    /\ \E p \in GraphPins \ ModifiedPins : pin_criticalities_[p] = Fin(0)
    /\ \E q \in ModifiedPins : FLt(Fin(0), pin_criticalities_[q])

\* ----------------------------------------------------------------------
\* C16 as stated: after any sequence of setup update_criticalities calls in which each
\* call's modified_nodes() contains every node whose setup-slack tags changed since
\* the previous call, the stored criticality of every pin mapped from a graph node
\* equals what a full recompute with the current aggregates and tags would store.
\* Stated here for the runs with at most one analysis, all of which satisfy the
\* premise: before the analysis no tag has changed since construction, and after it
\* modified_nodes() holds the one node whose tags changed (SetupAnalyze).
C16_IncrementalEqualsFull ==
    (IsSetup /\ AfterCriticalityCall /\ ~failed /\ analyses <= 1) =>
        \A n \in Nodes : tnode_atom_pin[n] # INVALID =>
            pin_criticalities_[tnode_atom_pin[n]] = ExpectedCriticality(n)

\* ----------------------------------------------------------------------
\* A step of the slack task / of the criticality task of the running task group.
TbbSlackStep ==
    /\ task_group.slack = "loop"
    /\ task_group'.slack # "loop" \/ task_group'.slack_todo # task_group.slack_todo
TbbCriticalityStep ==
    /\ task_group.criticality \in {"aggregate", "loop"}
    /\ \/ task_group'.criticality # task_group.criticality
       \/ task_group'.criticality_todo # task_group.criticality_todo

\* C15: in update_slacks_and_criticalities, of SetupSlackCrit and of HoldSlackCrit, the
\* slack update and the criticality update write disjoint state and neither reads what
\* the other writes: every interleaving of the two tasks ends, at the join, in the
\* state the sequential slack-then-criticality order gives.
C15_TasksIndependent ==
    /\ []((last = "update_slacks_and_criticalities" /\ ~failed) =>
              <<pin_slacks_, pin_criticalities_, pins_with_modified_slacks_,
                pins_with_modified_criticalities_, prev_max_req_, prev_worst_slack_,
                path>> = sequential)
    /\ [][/\ TbbSlackStep => UNCHANGED <<pin_criticalities_, pins_with_modified_criticalities_,
                                        prev_max_req_, prev_worst_slack_, path>>
          /\ TbbCriticalityStep => UNCHANGED <<pin_slacks_, pins_with_modified_slacks_>>]_vars

\* A joined call of SetupSlackCrit whose two tasks were inside their loops at the same
\* time, on the incremental branch, with a finite slack and a positive criticality
\* written for a modified pin.
C15_Witness ==
    /\ IsSetup /\ last = "update_slacks_and_criticalities" /\ ~failed
    /\ task_group.overlapped /\ path = "incremental"
    /\ \E p \in ModifiedPins : IsFinite(pin_slacks_[p]) /\ FLt(Fin(0), pin_criticalities_[p])

====
